---- MODULE Spec2Model ----
(***************************************************************************)
(* A model of curtin/block/__init__.py: the secure-wipe engine             *)
(* (zero_file_at_offsets, quick_zero, wipe_file, wipe_volume), the         *)
(* multipath detector (detect_multipath, get_multipath_wwids,              *)
(* rescan_block_devices, stop_all_unused_multipath_devices), the filter of *)
(* install candidates (get_installable_blockdevs) and the sysfs readers    *)
(* (get_blockdev_for_partition, sys_block_path, sysfs_partition_data).     *)
(*                                                                         *)
(* A file or block device is a sequence of bytes; byte position p of the   *)
(* Python code (0-based) is element p + 1 of the sequence.  Every function *)
(* of the source is a small state machine: one action per branch of its    *)
(* body, with pc naming the statement that runs next.                      *)
(***************************************************************************)
EXTENDS Integers, Sequences, FiniteSets, TLC

VARIABLES
    call,        \* the function the caller invoked
    pc,          \* the statement that runs next; "done" and "raised" are final
    err,         \* the exception that ended the call, "none" otherwise
    ret,         \* the value returned by the call
    kind,        \* what path names: "file", "block" or "other"
    file,        \* the bytes of the target now
    file0,       \* the bytes of the target when the call started
    mode,        \* wipe_volume: the mode argument
    partitions,  \* quick_zero: the partitions argument
    ptdata,      \* quick_zero: what sysfs_partition_data(path) returns
    offsets,     \* zero_file_at_offsets: the offsets argument
    buflen,      \* zero_file_at_offsets, wipe_file: the buflen argument
    count,       \* zero_file_at_offsets: the count argument
    strict,      \* zero_file_at_offsets: the strict argument
    opened,      \* open(path, "rb+") has been called on the target
    size,        \* the size measured by fp.seek(0, 2); fp.tell()
    fpos,        \* the position of fp
    idx,         \* zero_file_at_offsets: index (1-based) of the current offset
    i,           \* zero_file_at_offsets: the counter of the inner write loop
    reader,      \* wipe_file: which reader feeds the wipe
    reads,       \* wipe_file: the blocks the reader has returned, in order
    writes,      \* every fp.write so far: [idx, pos, n] (offset index, position, bytes)
    log,         \* the LOG calls so far
    cmds,        \* wipe_volume: the commands still to run
    cmdlog,      \* the external commands run so far, with their exit codes
    env          \* the locals of the call that runs and the part of the system
                 \* it reads (the blkid cache files, the contents of sysfs): a
                 \* record whose fields depend on the call; None for the wipe
                 \* engine

vars == <<call, pc, err, ret, kind, file, file0, mode, partitions, ptdata,
          offsets, buflen, count, strict, opened, size, fpos, idx, i, reader, reads,
          writes, log, cmds, cmdlog, env>>

-----------------------------------------------------------------------------
(* Bounds of the model.                                                    *)

\* the largest file or device, in bytes
MaxSize == 5
\* the largest buflen a caller passes
MaxBuflen == 2
\* the largest count a caller passes
MaxCount == 2
\* the longest offsets sequence a caller passes
MaxOffsets == 2
\* the most partitions on a block device
MaxParts == 1
\* by how many bytes a caller's reader may exceed the requested length
MaxOver == 2
\* quick_zero's buflen (1024 in the source) and count (1024), scaled down:
\* its window is QuickZeroBuflen * QuickZeroCount bytes and stands for 1 MiB
QuickZeroBuflen == 1
QuickZeroCount == 2
\* wipe_file's default buflen (4 MiB in the source), scaled down
WipeFileBuflen == 2

-----------------------------------------------------------------------------
(* Python values and file objects.                                         *)

None == "None"

Min(a, b) == IF a <= b THEN a ELSE b
Max(a, b) == IF a >= b THEN a ELSE b

\* buf[0:stop]: a negative stop counts from the end of buf
PySlice0(buf, stop) ==
    LET n == Len(buf)
        e == IF stop >= 0 THEN Min(stop, n) ELSE Max(n + stop, 0)
    IN  SubSeq(buf, 1, e)

\* the bytes of f after fp.write(data) at position pos: a write past the end
\* grows the file, a gap is filled with zeros, an empty write changes nothing
fp_write(f, pos, data) ==
    LET end == pos + Len(data)
        n   == IF Len(data) = 0 THEN Len(f) ELSE Max(Len(f), end)
    IN  [p \in 1..n |-> IF p > pos /\ p <= end THEN data[p - pos]
                        ELSE IF p <= Len(f) THEN f[p] ELSE 0]

\* n * b'\0'
zero_buf(n) == [j \in 1..n |-> 0]

\* the bytes a target holds before a wipe: none of them is zero
InitialFile(n) == [p \in 1..n |-> 1 + (p % 2)]

PathKinds == {"file", "block", "other"}

\* os.path.isfile(path) / is_block_device(path)
isfile(k) == k = "file"
is_block_device(k) == k = "block"

\* the partitions (kname, number, start, size) a device of n bytes can have:
\* each lies inside the device and is not empty
Partitions(n) ==
    {t \in {<<"p1", 1, s, z>> : s \in 0..n, z \in 1..n} : t[3] + t[4] <= n}

RECURSIVE SeqsUpTo(_, _)
SeqsUpTo(S, n) ==
    IF n = 0 THEN {<<>>}
    ELSE LET shorter == SeqsUpTo(S, n - 1)
         IN  shorter \cup {Append(s, x) : s \in {t \in shorter : Len(t) = n - 1}, x \in S}

-----------------------------------------------------------------------------
(* zero_file_at_offsets(path, offsets, buflen, count, strict)              *)

\* what the zero_file_at_offsets actions leave alone
zfFrame == <<call, kind, file0, mode, ptdata, env, ret, partitions, offsets,
             buflen, count, strict, reader, reads, cmds, cmdlog>>

\* pos: a negative offset is measured from the end
zf_pos(offset, sz) == IF offset < 0 THEN sz + offset ELSE offset

\* a slip in the invalid-offset test: the check for a negative position is
\* forgotten
zf_invalid_pos_no_negative(pos, sz) == pos > sz

\* the invalid-offset test
zf_invalid_pos(pos, sz) == pos > sz \/ pos < 0

\* a slip in the short-write test: a window that ends exactly at the end of
\* the file counts as short
zf_short_off_by_one(pos, tot, sz) == pos + tot >= sz

\* a slip in the short-write test: only the first block is looked at
zf_short_first_block(pos, tot, sz) == pos + Min(tot, 1) > sz

\* the short-write test: tot = buflen * count bytes from pos run past the end
zf_short(pos, tot, sz) == pos + tot > sz

\* a slip in the inner loop: the block is written whole at the end of the file
zf_block_uncut(buf, pos, sz) == buf

\* the bytes one pass of the inner loop writes at pos
zf_block(buf, pos, sz) ==
    IF pos + Len(buf) > sz THEN PySlice0(buf, sz - pos) ELSE buf

\* the offset the for loop is at, and its absolute position
zf_offset == offsets[idx]
zf_cur == zf_pos(zf_offset, size)

\* the record a LOG.debug of m_badoff / m_short leaves
zf_msg(m) == [msg |-> m, offset |-> zf_offset, pos |-> zf_cur,
              wsize |-> size - zf_cur]

\* with open(path, "rb+") as fp: fp.seek(0, 2); size = fp.tell()
zf_open ==
    /\ pc = "zf_open"
    /\ IF isfile(kind) \/ is_block_device(kind)
       THEN /\ size' = Len(file)
            /\ fpos' = Len(file)
            /\ idx' = 1
            /\ pc' = "zf_for"
            /\ err' = err
       ELSE /\ pc' = "raised"
            /\ err' = "OSError"
            /\ UNCHANGED <<size, fpos, idx>>
    /\ UNCHANGED <<i, file, writes, log>>
    /\ opened' = TRUE
    /\ UNCHANGED zfFrame

\* strict: raise ValueError(m_badoff)
zf_invalid_raise ==
    /\ pc = "zf_for"
    /\ idx <= Len(offsets)
    /\ zf_invalid_pos(zf_cur, size)
    /\ strict
    /\ pc' = "raised"
    /\ err' = "ValueError"
    /\ UNCHANGED <<size, fpos, idx, i, file, writes, log>>
    /\ UNCHANGED <<zfFrame, opened>>

\* not strict: LOG.debug(m_badoff); continue
zf_invalid_skip ==
    /\ pc = "zf_for"
    /\ idx <= Len(offsets)
    /\ zf_invalid_pos(zf_cur, size)
    /\ ~strict
    /\ log' = Append(log, zf_msg("m_badoff"))
    /\ idx' = idx + 1
    /\ UNCHANGED <<pc, err, size, fpos, i, file, writes>>
    /\ UNCHANGED <<zfFrame, opened>>

\* strict: raise ValueError(m_short)
zf_short_raise ==
    /\ pc = "zf_for"
    /\ idx <= Len(offsets)
    /\ ~zf_invalid_pos(zf_cur, size)
    /\ zf_short(zf_cur, buflen * count, size)
    /\ strict
    /\ pc' = "raised"
    /\ err' = "ValueError"
    /\ UNCHANGED <<size, fpos, idx, i, file, writes, log>>
    /\ UNCHANGED <<zfFrame, opened>>

\* (not strict: LOG.debug(m_short);) fp.seek(pos): a negative position is an
\* OSError of seek
zf_seek ==
    /\ pc = "zf_for"
    /\ idx <= Len(offsets)
    /\ ~zf_invalid_pos(zf_cur, size)
    /\ ~(zf_short(zf_cur, buflen * count, size) /\ strict)
    /\ log' = IF zf_short(zf_cur, buflen * count, size)
              THEN Append(log, zf_msg("m_short")) ELSE log
    /\ IF zf_cur < 0
       THEN /\ pc' = "raised"
            /\ err' = "OSError"
            /\ UNCHANGED <<fpos, i>>
       ELSE /\ fpos' = zf_cur
            /\ i' = 0
            /\ pc' = "zf_write"
            /\ err' = err
    /\ UNCHANGED <<size, idx, file, writes>>
    /\ UNCHANGED <<zfFrame, opened>>

\* one pass of "for i in range(count)": pos = fp.tell(); fp.write(...)
zf_write ==
    /\ pc = "zf_write"
    /\ i < count
    /\ LET data == zf_block(zero_buf(buflen), fpos, size)
       IN  /\ file' = fp_write(file, fpos, data)
           /\ fpos' = fpos + Len(data)
           /\ writes' = Append(writes, [idx |-> idx, pos |-> fpos, n |-> Len(data)])
    /\ i' = i + 1
    /\ UNCHANGED <<pc, err, size, idx, log>>
    /\ UNCHANGED <<zfFrame, opened>>

\* the inner loop is over: the for loop takes the next offset
zf_next ==
    /\ pc = "zf_write"
    /\ i = count
    /\ idx' = idx + 1
    /\ pc' = "zf_for"
    /\ UNCHANGED <<err, size, fpos, i, file, writes, log>>
    /\ UNCHANGED <<zfFrame, opened>>

\* the for loop is over: the file is closed and the function returns None
zf_return ==
    /\ pc = "zf_for"
    /\ idx > Len(offsets)
    /\ pc' = "done"
    /\ UNCHANGED <<err, size, fpos, idx, i, file, writes, log>>
    /\ UNCHANGED <<zfFrame, opened>>

-----------------------------------------------------------------------------
(* quick_zero(path, partitions)                                            *)

RECURSIVE qz_partition_offsets(_, _)
\* for kname, ptnum, start, size in ptdata: two appends each
qz_partition_offsets(pt, zero_size) ==
    IF pt = <<>> THEN <<>>
    ELSE <<Head(pt)[3], Head(pt)[3] + Head(pt)[4] - zero_size>>
         \o qz_partition_offsets(Tail(pt), zero_size)

\* a slip in quick_zero: the second window's offset loses its sign
qz_offsets_unsigned(zero_size, is_block, parts, pt) ==
    <<0, zero_size>> \o
    (IF parts /\ is_block THEN qz_partition_offsets(pt, zero_size) ELSE <<>>)

\* the offsets quick_zero hands to zero_file_at_offsets
qz_offsets(zero_size, is_block, parts, pt) ==
    <<0, -zero_size>> \o
    (IF parts /\ is_block THEN qz_partition_offsets(pt, zero_size) ELSE <<>>)

\* neither a block device nor a file: raise ValueError
quick_zero_bad_path ==
    /\ pc = "qz_call"
    /\ ~(is_block_device(kind) \/ isfile(kind))
    /\ pc' = "raised"
    /\ err' = "ValueError"
    /\ UNCHANGED <<call, kind, file, file0, mode, partitions, ptdata, offsets,
                   buflen, count, strict, opened, size, fpos, idx, i, reader,
                   reads, writes, log, cmds, cmdlog, env, ret>>

\* return zero_file_at_offsets(path, offsets, buflen=buflen, count=count)
quick_zero_call ==
    /\ pc = "qz_call"
    /\ is_block_device(kind) \/ isfile(kind)
    /\ offsets' = qz_offsets(QuickZeroBuflen * QuickZeroCount,
                             is_block_device(kind), partitions, ptdata)
    /\ buflen' = QuickZeroBuflen
    /\ count' = QuickZeroCount
    /\ strict' = FALSE
    /\ pc' = "zf_open"
    /\ UNCHANGED <<call, kind, file, file0, mode, partitions, ptdata, err,
                   opened, size, fpos, idx, i, reader, reads, writes, log,
                   cmds, cmdlog, env, ret>>

-----------------------------------------------------------------------------
(* SpecZero: a caller invokes zero_file_at_offsets or quick_zero.          *)

\* the offsets a caller passes: every position of the largest file from
\* either end, and one past it on both sides
Offsets == (0 - MaxSize - 1)..(MaxSize + 1)

\* the state before any call: nothing opened, written, logged or run
Idle ==
    /\ err = "none"
    /\ ret = None
    /\ opened = FALSE
    /\ size = 0
    /\ fpos = 0
    /\ idx = 0
    /\ i = 0
    /\ reads = <<>>
    /\ writes = <<>>
    /\ log = <<>>
    /\ cmds = <<>>
    /\ cmdlog = <<>>

\* the window of quick_zero
ZeroSize == QuickZeroBuflen * QuickZeroCount

InitZero ==
    /\ Idle
    /\ env = None
    /\ mode = None
    /\ reader = None
    /\ \/ /\ call = "zero_file_at_offsets"
          /\ pc = "zf_open"
          /\ kind \in {"file", "other"}
          /\ file0 \in {InitialFile(n) : n \in 0..MaxSize}
          /\ partitions = FALSE
          /\ ptdata = <<>>
          /\ offsets \in SeqsUpTo(Offsets, MaxOffsets)
          /\ buflen \in 1..MaxBuflen
          /\ count \in 1..MaxCount
          /\ strict \in BOOLEAN
       \/ /\ call = "quick_zero"
          /\ pc = "qz_call"
          /\ kind \in PathKinds
          \* a file may hold two windows and a byte between them
          /\ file0 \in {InitialFile(n) :
                          n \in 0..(IF kind = "file" THEN 2 * ZeroSize + 1 ELSE MaxSize)}
          /\ partitions \in BOOLEAN
          /\ ptdata \in IF kind = "block"
                         THEN SeqsUpTo(Partitions(Len(file0)), MaxParts)
                         ELSE {<<>>}
          /\ offsets = <<>>
          /\ buflen = 0
          /\ count = 0
          /\ strict = FALSE
    /\ file = file0

NextZero ==
    \/ zf_open
    \/ zf_invalid_raise
    \/ zf_invalid_skip
    \/ zf_short_raise
    \/ zf_seek
    \/ zf_write
    \/ zf_next
    \/ zf_return
    \/ quick_zero_bad_path
    \/ quick_zero_call

SpecZero == InitZero /\ [][NextZero]_vars

-----------------------------------------------------------------------------
(* Properties of zero_file_at_offsets and quick_zero (checked under        *)
(* SpecZero).                                                              *)

\* the size has been measured and no open() failure ended the call
Measured ==
    pc \in {"zf_for", "zf_write", "done"} \/ (pc = "raised" /\ err = "ValueError")

\* the absolute position of the k-th offset
AbsPos(k) == IF offsets[k] >= 0 THEN offsets[k] ELSE size + offsets[k]

\* the k-th offset lies outside [0, size]
Outside(k) == AbsPos(k) < 0 \/ AbsPos(k) > size

\* the k-th offset is valid but its window runs past the end of the file
Overruns(k) == ~Outside(k) /\ AbsPos(k) + buflen * count > size

\* the indexes in writes of the writes made for the k-th offset
WritesFor(k) == {j \in 1..Len(writes) : writes[j].idx = k}

RECURSIVE BytesFrom(_, _)
\* the number of bytes written for the k-th offset by writes[j..]
BytesFrom(k, j) ==
    IF j > Len(writes) THEN 0
    ELSE (IF writes[j].idx = k THEN writes[j].n ELSE 0) + BytesFrom(k, j + 1)

\* every byte of [lo, hi) is zero
ZeroIn(lo, hi) == \A p \in lo..(hi - 1) : file[p + 1] = 0

\* the case of C1: quick_zero(path, partitions=False) on a regular file that
\* holds two windows
C1_Case ==
    /\ call = "quick_zero"
    /\ kind = "file"
    /\ ~partitions
    /\ Len(file0) >= 2 * ZeroSize

\* C1: quick_zero(path, partitions=False) on a regular file of size
\* S >= 2 * window never raises, and when it has returned the file still has
\* S bytes, every byte of [0, window) and of [S - window, S) is zero and every
\* byte of [window, S - window) holds its initial value.
C1_QuickZeroWindows ==
    C1_Case =>
        /\ pc # "raised"
        /\ pc = "done" =>
              /\ Len(file) = Len(file0)
              /\ \A p \in 0..(Len(file0) - 1) :
                    file[p + 1] = IF p < ZeroSize \/ p >= Len(file0) - ZeroSize
                                  THEN 0 ELSE file0[p + 1]

\* quick_zero has returned on a file with bytes between the two windows
C1_Witness ==
    /\ C1_Case
    /\ pc = "done"
    /\ Len(file0) > 2 * ZeroSize
    /\ file # file0

\* C2: in zero_file_at_offsets, for every offset whose absolute position lies
\* outside [0, size]: with strict the loop never gets past it, the step taken
\* there ends the call with ValueError and nothing is written for it; without
\* strict (and a path that can be opened) no error is raised, nothing is
\* written for it, its skip is logged, and when the call has returned every
\* offset inside [0, size], also one after it, got its count writes, starting
\* at its position.
C2_InvalidOffset ==
    /\ (~strict /\ kind # "other") => (err = "none" /\ pc # "raised")
    /\ Measured =>
          \A k \in 1..Len(offsets) :
              /\ Outside(k) =>
                    /\ WritesFor(k) = {}
                    /\ strict => idx <= k
                    /\ (strict /\ idx = k /\ pc # "zf_for") =>
                          (pc = "raised" /\ err = "ValueError")
                    /\ (~strict /\ idx > k) =>
                          \E j \in 1..Len(log) :
                              log[j].msg = "m_badoff" /\ log[j].offset = offsets[k]
              /\ (~Outside(k) /\ ~strict /\ pc = "done") =>
                    /\ Cardinality(WritesFor(k)) = count
                    /\ \E j \in WritesFor(k) :
                          /\ writes[j].pos = AbsPos(k)
                          /\ \A j2 \in WritesFor(k) : j <= j2

\* a call without strict has returned after skipping an invalid offset and
\* zeroing the window of a later one
C2_Witness ==
    /\ call = "zero_file_at_offsets"
    /\ ~strict
    /\ pc = "done"
    /\ Len(offsets) = 2
    /\ Outside(1)
    /\ ~Outside(2)
    /\ BytesFrom(2, 1) > 0
    /\ WritesFor(1) = {}

\* the windows of the offsets before the k-th are zero
EarlierZeroed(k) ==
    \A e \in 1..(k - 1) : ZeroIn(AbsPos(e), AbsPos(e) + buflen * count)

\* C3: with strict, when the loop is at an offset whose position is valid but
\* whose window runs past the end of the file, the next step raises ValueError
\* and writes nothing: the file keeps the bytes it had when the offset was
\* reached, no write was made for this or a later offset, and the windows of
\* the earlier offsets are zero (each was written in full before this offset
\* was examined).
C3_StrictShortWrite ==
    [][(pc = "zf_for" /\ strict /\ idx <= Len(offsets) /\ Overruns(idx)) =>
          /\ pc' = "raised"
          /\ err' = "ValueError"
          /\ file' = file
          /\ writes' = writes
          /\ \A k \in idx..Len(offsets) : WritesFor(k) = {}
          /\ \A e \in 1..(idx - 1) : BytesFrom(e, 1) = buflen * count
          /\ EarlierZeroed(idx)]_vars

\* a strict call raised at its second offset, after the window of the first
\* was zeroed; a byte at or after the second position still holds its value
C3_Witness ==
    /\ call = "zero_file_at_offsets"
    /\ strict
    /\ pc = "raised"
    /\ err = "ValueError"
    /\ idx = 2
    /\ Overruns(2)
    /\ writes # <<>>
    /\ \E p \in AbsPos(2)..(size - 1) : file[p + 1] # 0

\* the case of C4: offsets [0, -N] with N = buflen * count on a file of
\* 2N - 1 bytes, not strict
C4_Case ==
    /\ call = "zero_file_at_offsets"
    /\ kind = "file"
    /\ ~strict
    /\ offsets = <<0, 0 - buflen * count>>
    /\ Len(file0) = 2 * buflen * count - 1

\* the short-write conditions logged so far
ShortLogged == {j \in 1..Len(log) : log[j].msg = "m_short"}

\* C4 as stated: the call raises nothing and, when it has returned, exactly
\* one short-write condition was logged and the write made for it is shorter
\* than N bytes.
C4_AsStated ==
    C4_Case =>
        /\ pc # "raised"
        /\ pc = "done" =>
              /\ Cardinality(ShortLogged) = 1
              /\ \E k \in 1..2 : BytesFrom(k, 1) < buflen * count

\* C4, amended: the call raises nothing and, when it has returned, no
\* short-write condition was logged: both windows fit, N bytes were written
\* for each offset, at positions 0 and N - 1, and every byte of the file is
\* zero.
C4_NoShortWrite ==
    C4_Case =>
        /\ pc # "raised"
        /\ pc = "done" =>
              /\ log = <<>>
              /\ \A k \in 1..2 : BytesFrom(k, 1) = buflen * count
              /\ Len(file) = Len(file0)
              /\ ZeroIn(0, Len(file))

\* the call of C4 has returned, with a window of more than one block
C4_Witness ==
    /\ C4_Case
    /\ pc = "done"
    /\ buflen * count > 1
    /\ Len(writes) = 2 * count

-----------------------------------------------------------------------------
(* wipe_file(path, reader, buflen)                                         *)

\* what the wipe_file actions leave alone
wfFrame == <<call, kind, file0, mode, ptdata, env, ret, partitions, offsets,
             buflen, count, strict, reader, idx, i, log, cmds, cmdlog>>

\* the bytes a reader can deliver
ReaderBytes == {0, 3}

\* what readfunc(n) can return: the default reader returns its buffer of n
\* zeros, /dev/urandom returns n bytes, a caller's reader returns what it likes
wf_readfunc(rd, n) ==
    IF rd = "default" THEN {zero_buf(n)}
    ELSE IF rd = "urandom" THEN [1..n -> ReaderBytes]
    ELSE UNION {[1..m -> ReaderBytes] : m \in 0..(n + MaxOver)}

\* a slip in the short-read test: a short block that ends exactly at the end
\* of the file is refused
wf_short_read_off_by_one(pbuf, bl, pos, sz) ==
    Len(pbuf) # bl /\ Len(pbuf) + pos <= sz

\* a slip in the short-read test: no block is ever refused
wf_short_read_never(pbuf, bl, pos, sz) == FALSE

\* the short-read test
wf_short_read(pbuf, bl, pos, sz) == Len(pbuf) # bl /\ Len(pbuf) + pos < sz

\* the test for the last block
wf_last(pos, bl, sz) == pos + bl >= sz

\* a slip in the last write: the block is not cut to the end of the file
wf_last_block_uncut(pbuf, pos, sz) == pbuf

\* the bytes of the last write
wf_last_block(pbuf, pos, sz) == PySlice0(pbuf, sz - pos)

\* with open(path, "rb+") as fp: fp.seek(0, 2); size = fp.tell(); fp.seek(0)
wf_open ==
    /\ pc = "wf_open"
    /\ opened' = TRUE
    /\ IF isfile(kind) \/ is_block_device(kind)
       THEN /\ size' = Len(file)
            /\ fpos' = 0
            /\ pc' = "wf_loop"
            /\ err' = err
       ELSE /\ pc' = "raised"
            /\ err' = "OSError"
            /\ UNCHANGED <<size, fpos>>
    /\ UNCHANGED <<file, reads, writes>>
    /\ UNCHANGED wfFrame

\* pbuf = readfunc(buflen): a short read before the end raises ValueError
wf_raise_short ==
    /\ pc = "wf_loop"
    /\ \E pbuf \in wf_readfunc(reader, buflen) :
          /\ wf_short_read(pbuf, buflen, fpos, size)
          /\ reads' = Append(reads, pbuf)
    /\ pc' = "raised"
    /\ err' = "ValueError"
    /\ UNCHANGED <<opened, size, fpos, file, writes>>
    /\ UNCHANGED wfFrame

\* pbuf = readfunc(buflen); fp.write(pbuf[0:size-pos]); break
wf_write_last ==
    /\ pc = "wf_loop"
    /\ \E pbuf \in wf_readfunc(reader, buflen) :
          /\ ~wf_short_read(pbuf, buflen, fpos, size)
          /\ wf_last(fpos, buflen, size)
          /\ reads' = Append(reads, pbuf)
          /\ LET data == wf_last_block(pbuf, fpos, size)
             IN  /\ file' = fp_write(file, fpos, data)
                 /\ fpos' = fpos + Len(data)
                 /\ writes' = Append(writes, [idx |-> 0, pos |-> fpos, n |-> Len(data)])
    /\ pc' = "done"
    /\ UNCHANGED <<opened, size, err>>
    /\ UNCHANGED wfFrame

\* pbuf = readfunc(buflen); fp.write(pbuf)
wf_write_block ==
    /\ pc = "wf_loop"
    /\ \E pbuf \in wf_readfunc(reader, buflen) :
          /\ ~wf_short_read(pbuf, buflen, fpos, size)
          /\ ~wf_last(fpos, buflen, size)
          /\ reads' = Append(reads, pbuf)
          /\ file' = fp_write(file, fpos, pbuf)
          /\ fpos' = fpos + Len(pbuf)
          /\ writes' = Append(writes, [idx |-> 0, pos |-> fpos, n |-> Len(pbuf)])
    /\ UNCHANGED <<opened, size, err, pc>>
    /\ UNCHANGED wfFrame

-----------------------------------------------------------------------------
(* wipe_volume(path, mode)                                                 *)

\* what the wipe_volume actions leave alone
wvFrame == <<call, kind, file, file0, mode, ptdata, env, ret, offsets, count,
             strict, opened, size, fpos, idx, i, reads, writes, log>>

WipeModes == {"pvremove", "zero", "random", "superblock", "superblock-recursive"}

\* util.lsb_release().get('release')
Releases == {None, "UNAVAILABLE", "12.04", "14.04", "16.04"}

\* float(release_code_str), in hundredths
release_code(rel) ==
    LET str == IF rel = None \/ rel = "UNAVAILABLE" THEN "14.04" ELSE rel
    IN  CASE str = "12.04" -> 1204
          [] str = "14.04" -> 1404
          [] str = "16.04" -> 1604

\* for cmd in [['pvscan'], ['vgscan', '--mknodes']]: --cache from trusty on
wv_scan_cmd(cmd, rel) ==
    IF release_code(rel) >= 1404 THEN Append(cmd, "--cache") ELSE cmd

\* the commands of mode pvremove
wv_cmds(rel) ==
    << <<"pvremove", "--force", "--force", "--yes", "path">>,
       wv_scan_cmd(<<"pvscan">>, rel),
       wv_scan_cmd(<<"vgscan", "--mknodes">>, rel) >>

\* the exit codes of an external command, and those subp(rcs=[0, 5]) accepts
ExitCodes == {0, 1, 5}

\* a slip in the exit codes: 5 (no label on the volume) is not accepted
wv_rcs_zero_only == {0}

wv_rcs == {0, 5}

\* a slip in the dispatch: quick_zero is called with its default partitions
wv_partitions_default(m) == TRUE

\* the partitions argument a superblock mode passes to quick_zero
wv_partitions(m) == m = "superblock-recursive"

\* mode == "pvremove": build cmds
wv_pvremove ==
    /\ pc = "wv_call"
    /\ mode = "pvremove"
    /\ \E rel \in Releases : cmds' = wv_cmds(rel)
    /\ pc' = "wv_subp"
    /\ UNCHANGED <<err, partitions, buflen, reader, cmdlog>>
    /\ UNCHANGED wvFrame

\* for cmd in cmds: util.subp(cmd, rcs=[0, 5]) with an accepted exit code
wv_subp_ok ==
    /\ pc = "wv_subp"
    /\ cmds # <<>>
    /\ \E rc \in ExitCodes :
          /\ rc \in wv_rcs
          /\ cmdlog' = Append(cmdlog, [cmd |-> Head(cmds), rc |-> rc])
    /\ cmds' = Tail(cmds)
    /\ UNCHANGED <<pc, err, partitions, buflen, reader>>
    /\ UNCHANGED wvFrame

\* util.subp raises ProcessExecutionError on any other exit code
wv_subp_fail ==
    /\ pc = "wv_subp"
    /\ cmds # <<>>
    /\ \E rc \in ExitCodes :
          /\ rc \notin wv_rcs
          /\ cmdlog' = Append(cmdlog, [cmd |-> Head(cmds), rc |-> rc])
    /\ pc' = "raised"
    /\ err' = "ProcessExecutionError"
    /\ UNCHANGED <<cmds, partitions, buflen, reader>>
    /\ UNCHANGED wvFrame

\* every command has run
wv_subp_end ==
    /\ pc = "wv_subp"
    /\ cmds = <<>>
    /\ pc' = "done"
    /\ UNCHANGED <<err, cmds, partitions, buflen, reader, cmdlog>>
    /\ UNCHANGED wvFrame

\* mode == "zero": wipe_file(path)
wv_zero ==
    /\ pc = "wv_call"
    /\ mode = "zero"
    /\ reader' = "default"
    /\ buflen' = WipeFileBuflen
    /\ pc' = "wf_open"
    /\ UNCHANGED <<err, cmds, partitions, cmdlog>>
    /\ UNCHANGED wvFrame

\* mode == "random": wipe_file(path, reader=reader.read) on /dev/urandom
wv_random ==
    /\ pc = "wv_call"
    /\ mode = "random"
    /\ reader' = "urandom"
    /\ buflen' = WipeFileBuflen
    /\ pc' = "wf_open"
    /\ UNCHANGED <<err, cmds, partitions, cmdlog>>
    /\ UNCHANGED wvFrame

\* mode == "superblock" / "superblock-recursive": quick_zero(path, partitions)
wv_superblock ==
    /\ pc = "wv_call"
    /\ mode \in {"superblock", "superblock-recursive"}
    /\ partitions' = wv_partitions(mode)
    /\ pc' = "qz_call"
    /\ UNCHANGED <<err, cmds, buflen, reader, cmdlog>>
    /\ UNCHANGED wvFrame

\* else: raise ValueError("wipe mode %s not supported")
wv_unsupported ==
    /\ pc = "wv_call"
    /\ mode \notin WipeModes
    /\ pc' = "raised"
    /\ err' = "ValueError"
    /\ UNCHANGED <<cmds, partitions, buflen, reader, cmdlog>>
    /\ UNCHANGED wvFrame

-----------------------------------------------------------------------------
(* SpecWipe: a caller invokes wipe_file or wipe_volume.                    *)

InitWipe ==
    /\ Idle
    /\ env = None
    /\ offsets = <<>>
    /\ count = 0
    /\ strict = FALSE
    /\ partitions = FALSE
    /\ file0 \in {InitialFile(n) : n \in 0..MaxSize}
    /\ file = file0
    /\ \/ /\ call = "wipe_file"
          /\ pc = "wf_open"
          /\ kind \in {"file", "other"}
          /\ mode = None
          /\ ptdata = <<>>
          /\ reader \in {"default", "custom"}
          /\ buflen \in 1..MaxBuflen
       \/ /\ call = "wipe_volume"
          /\ pc = "wv_call"
          /\ kind \in PathKinds
          /\ mode \in WipeModes \cup {"superblocks", None}
          /\ ptdata \in IF kind = "block"
                         THEN SeqsUpTo(Partitions(Len(file0)), MaxParts)
                         ELSE {<<>>}
          /\ reader = None
          /\ buflen = 0

\* the steps of zero_file_at_offsets a call without strict can take
NextWipe ==
    \/ wf_open
    \/ wf_raise_short
    \/ wf_write_last
    \/ wf_write_block
    \/ wv_pvremove
    \/ wv_subp_ok
    \/ wv_subp_fail
    \/ wv_subp_end
    \/ wv_zero
    \/ wv_random
    \/ wv_superblock
    \/ wv_unsupported
    \/ quick_zero_bad_path
    \/ quick_zero_call
    \/ zf_open
    \/ zf_invalid_skip
    \/ zf_seek
    \/ zf_write
    \/ zf_next
    \/ zf_return

SpecWipe == InitWipe /\ [][NextWipe]_vars

\* NextWipe leaves out the two raising steps of zero_file_at_offsets: they
\* need strict, which quick_zero never passes
NextWipeComplete == ~ENABLED zf_invalid_raise /\ ~ENABLED zf_short_raise

-----------------------------------------------------------------------------
(* Properties of wipe_file and wipe_volume (checked under SpecWipe).       *)

\* wipe_file is running or has ended, on a path that could be opened
InWipeFile ==
    /\ reader # None
    /\ kind # "other"
    /\ pc \in {"wf_loop", "done", "raised"}

\* every block the reader has returned so far has exactly buflen bytes
AllFull == \A k \in 1..Len(reads) : Len(reads[k]) = buflen

\* C5: as long as the reader returns exactly buflen bytes per call, wipe_file
\* never raises and writes one block per read, the k-th at position
\* (k - 1) * buflen with byte j of the block read going to that position + j;
\* the bytes not yet reached keep their value and the length stays S; the
\* write that ends the loop is cut to S - pos bytes and ends at S, so that
\* every position of [0, S) was written exactly once, in ascending order;
\* with the default reader (wipe_volume mode zero too) every byte is then zero.
C5_WipeFileStreams ==
    (InWipeFile /\ AllFull) =>
        /\ pc # "raised"
        /\ Len(writes) = Len(reads)
        /\ Len(file) = Len(file0)
        /\ size = Len(file0)
        /\ \A k \in 1..Len(writes) :
              /\ writes[k].pos = (k - 1) * buflen
              /\ writes[k].n = IF pc = "done" /\ k = Len(writes)
                               THEN size - writes[k].pos ELSE buflen
              /\ \A j \in 1..writes[k].n : file[writes[k].pos + j] = reads[k][j]
        /\ \A p \in fpos..(size - 1) : file[p + 1] = file0[p + 1]
        /\ pc = "done" => fpos = size
        /\ (pc = "done" /\ reader = "default") => ZeroIn(0, size)
        /\ (pc = "done" /\ mode = "zero") => reader = "default"

\* wipe_file has returned after three full blocks from a caller's reader,
\* the last of them cut to fit
C5_Witness ==
    /\ call = "wipe_file"
    /\ InWipeFile
    /\ AllFull
    /\ reader = "custom"
    /\ pc = "done"
    /\ Len(reads) = 3
    /\ buflen = 2
    /\ writes[3].n = 1
    /\ \E p \in 1..Len(file) : file[p] # 0

\* C6: a step of wipe_file's loop raises ValueError exactly when the block
\* just read has a length other than buflen and pos + len(block) < size; it
\* then writes nothing.  So a short block with pos + buflen < size always
\* raises, and a short block with pos + len(block) = size is written and ends
\* the wipe.  Whenever wipe_file has returned, every position of [0, size)
\* lies in one of its writes.
C6_ShortRead ==
    /\ [][(pc = "wf_loop") =>
            LET pbuf == reads'[Len(reads')]
            IN  /\ Len(reads') = Len(reads) + 1
                /\ (pc' = "raised") <=>
                      (Len(pbuf) # buflen /\ fpos + Len(pbuf) < size)
                /\ (pc' = "raised") => (err' = "ValueError" /\ file' = file)
                /\ (Len(pbuf) < buflen /\ fpos + buflen < size) => pc' = "raised"
                /\ (Len(pbuf) < buflen /\ fpos + Len(pbuf) = size) =>
                      (pc' = "done" /\ fpos' = size)]_vars
    /\ [](InWipeFile /\ pc = "done" =>
            \A p \in 0..(size - 1) :
                \E j \in 1..Len(writes) :
                    writes[j].pos <= p /\ p < writes[j].pos + writes[j].n)

\* wipe_file has returned after a full block and a short block that ended
\* exactly at the end of the file
C6_Witness ==
    /\ call = "wipe_file"
    /\ InWipeFile
    /\ pc = "done"
    /\ Len(reads) = 2
    /\ Len(reads[1]) = buflen
    /\ Len(reads[2]) < buflen
    /\ Len(reads[2]) > 0
    /\ buflen + Len(reads[2]) = size

\* the modes wipe_volume accepts
AcceptedModes ==
    {"pvremove", "zero", "random", "superblock", "superblock-recursive"}

\* the actions of the modes: where pc can be
WipeFilePcs == {"wv_call", "wf_open", "wf_loop", "done", "raised"}
QuickZeroPcs == {"wv_call", "qz_call", "zf_open", "zf_for", "zf_write", "done", "raised"}
PvremovePcs == {"wv_call", "wv_subp", "done", "raised"}

\* C7: wipe_volume with a mode outside the five raises ValueError, with the
\* target never opened or written and no command run; a mode of the five
\* never gets that error from the dispatch, and does the action of its mode
\* alone: zero runs wipe_file with blocks of zeros, random runs wipe_file
\* with the /dev/urandom reader, superblock runs quick_zero without
\* partitions, superblock-recursive runs quick_zero with partitions (none of
\* these runs a command), pvremove runs commands and never opens or writes
\* the target.
C7_WipeModes ==
    call = "wipe_volume" =>
        /\ mode \notin AcceptedModes =>
              /\ pc \in {"wv_call", "raised"}
              /\ pc = "raised" => err = "ValueError"
              /\ ~opened /\ writes = <<>> /\ file = file0
              /\ cmdlog = <<>> /\ reads = <<>>
        /\ (mode \in AcceptedModes /\ pc = "raised" /\ err = "ValueError") =>
              (mode \in {"superblock", "superblock-recursive"} /\ kind = "other")
        /\ mode = "pvremove" =>
              /\ pc \in PvremovePcs
              /\ ~opened /\ writes = <<>> /\ file = file0 /\ reads = <<>>
              /\ pc = "done" => Len(cmdlog) > 0
        /\ mode = "zero" =>
              /\ pc \in WipeFilePcs
              /\ cmdlog = <<>>
              /\ reader \in {None, "default"}
              /\ \A k \in 1..Len(reads) : reads[k] = [j \in 1..WipeFileBuflen |-> 0]
        /\ mode = "random" =>
              /\ pc \in WipeFilePcs
              /\ cmdlog = <<>>
              /\ reader \in {None, "urandom"}
        /\ mode = "superblock" =>
              /\ pc \in QuickZeroPcs
              /\ cmdlog = <<>> /\ reads = <<>>
              /\ ~partitions
              /\ pc \in {"zf_for", "zf_write", "done"} => offsets = <<0, 0 - ZeroSize>>
        /\ mode = "superblock-recursive" =>
              /\ pc \in QuickZeroPcs
              /\ cmdlog = <<>> /\ reads = <<>>
              /\ pc # "wv_call" => partitions
              /\ pc \in {"zf_for", "zf_write", "done"} =>
                    Len(offsets) = 2 + (IF kind = "block" THEN 2 * Len(ptdata) ELSE 0)

\* wipe_volume has refused a mode that is none of the five
C7_Witness ==
    /\ call = "wipe_volume"
    /\ mode \notin AcceptedModes
    /\ pc = "raised"
    /\ err = "ValueError"

-----------------------------------------------------------------------------
(* The multipath detector: the system it looks at.                         *)

\* what the multipath actions leave alone: everything of the wipe engine
mpFrame == <<call, kind, file, file0, mode, partitions, ptdata, offsets,
             buflen, count, strict, opened, size, fpos, idx, i, reader, reads,
             writes, cmds>>

\* the device nodes blkid can report: two partitions of sda, one of sdb and
\* the whole disk sdc
BlkDevs == {"/dev/sda1", "/dev/sda2", "/dev/sdb1", "/dev/sdc"}

\* the data blkid reports for a device: the UUID key may be missing or empty
BlkData ==
    {[TYPE |-> "ext4"]} \cup
    {[TYPE |-> "ext4", UUID |-> u] : u \in {"", "u1", "u2"}}

\* the outputs of blkid over the devices D, in the order of its lines: every
\* device at most once
BlkidOutputs(D) ==
    {b \in SeqsUpTo([dev : D, data : BlkData], Cardinality(D)) :
        \A a, c \in 1..Len(b) : a # c => b[a].dev # b[c].dev}

\* data.get(key)
dict_get(data, key) == IF key \in DOMAIN data THEN data[key] ELSE None

\* the truth value of a string or None
truthy(v) == v # None /\ v # ""

\* the files blkid keeps its cache in
CacheFiles == {"/run/blkid/blkid.tab", "/dev/.blkid.tab", "/etc/blkid.tab"}

\* the top-level disks lsblk --nodeps can list, and their rows
Disks == {"/dev/sda", "/dev/sdb"}
LsblkRows == [RM : {"0", "1"}, RO : {"0", "1"}, TYPE : {"disk", "rom"}]
UnusedTables == UNION {[D -> LsblkRows] : D \in SUBSET Disks}

\* symbolic links under /dev and the device node each one resolves to
DevLinks ==
    [p \in {"/dev/disk/by-label/data", "/dev/disk/by-label/root"} |->
        IF p = "/dev/disk/by-label/data" THEN "/dev/sdc" ELSE "/dev/sda1"]

\* os.path.realpath(path) of a path under /dev
realpath(path) == IF path \in DOMAIN DevLinks THEN DevLinks[path] ELSE path

\* os.path.basename(path) of the paths under /dev that occur
basename(path) ==
    CASE path = "/dev/sda" -> "sda"
      [] path = "/dev/sda1" -> "sda1"
      [] path = "/dev/sda2" -> "sda2"
      [] path = "/dev/sdb" -> "sdb"
      [] path = "/dev/sdb1" -> "sdb1"
      [] path = "/dev/sdc" -> "sdc"
      [] path = "/dev/cciss/c0d0" -> "c0d0"
      [] path = "/dev/disk/by-label/data" -> "data"
      [] path = "/dev/disk/by-label/root" -> "root"
      [] OTHER -> "nosuch"

\* the entries of /sys/class/block
SysClassBlock == {"sda", "sda1", "sda2", "sdb", "sdb1", "sdc", "cciss!c0d0"}

\* "/sys/class/block/cciss!%s" % bname, for the one controller there is
cciss(bname) == IF bname = "c0d0" THEN "cciss!c0d0" ELSE "cciss!"

\* get_blockdev_for_partition raises ValueError: neither syspath exists
gb_no_syspath(devpath) ==
    /\ basename(realpath(devpath)) \notin SysClassBlock
    /\ cciss(basename(realpath(devpath))) \notin SysClassBlock

\* sysfs: the nodes that have a 'partition' file, their number and the
\* device node of the disk they lie on
HasPartitionFile(dev) == dev \in {"/dev/sda1", "/dev/sda2", "/dev/sdb1"}
PartitionNumber(dev) == IF dev = "/dev/sda2" THEN "2" ELSE "1"
DiskOf(dev) == IF dev = "/dev/sdb1" THEN "/dev/sdb" ELSE "/dev/sda"

\* get_blockdev_for_partition(devpath) where a syspath exists: (rpath, None)
\* for a whole disk, (parent disk, partition number) for a partition
get_blockdev_for_partition(devpath) ==
    LET rpath == realpath(devpath)
    IN  IF ~HasPartitionFile(rpath) THEN <<rpath, None>>
        ELSE <<DiskOf(rpath), PartitionNumber(rpath)>>

\* the locals of a call that has not started
EnvIdle(cf) ==
    [cachefiles |-> cf, unused |-> <<>>, devices |-> <<>>, binfo |-> <<>>,
     target_devs |-> {},
     multipath_devices |-> {}, pending |-> {}, multipath_wwids |-> {},
     multipath |-> None]

\* a run of an external command, as cmdlog keeps it
Ran(argv, rc) == [cmd |-> argv, rc |-> rc]

-----------------------------------------------------------------------------
(* rescan_block_devices() and blkid(cache=False), as detect_multipath      *)
(* calls them                                                              *)

\* a slip in detect_multipath: blkid is called with its cache left in place
rb_returns_cached == IF call = "detect_multipath" THEN "bk_probe" ELSE "done"

\* where rescan_block_devices returns to: its caller detect_multipath goes
\* on with blkid(cache=False)
rb_returns == IF call = "detect_multipath" THEN "bk_unlink" ELSE "done"

\* the locals of rescan_block_devices are gone when it returns
rb_locals_dropped == [env EXCEPT !.unused = <<>>, !.devices = <<>>]

\* the rows rescan_block_devices keeps
rb_keeps(data) == ~(data.RM = "1") /\ ~(data.RO # "0" \/ data.TYPE # "disk")

\* the loop over unused.items(), in the order of lsblk's lines: the device
\* paths of the rows kept
rb_devices(unused) ==
    SelectSeq(<<"/dev/sda", "/dev/sdb">>,
              LAMBDA d : d \in DOMAIN unused /\ rb_keeps(unused[d]))

\* unused = get_unused_blockdev_info(); devices = [...]: lsblk may fail
rb_unused ==
    /\ pc = "rb_unused"
    /\ \E rc \in {0, 1} :
          /\ cmdlog' = Append(cmdlog, Ran(<<"lsblk">>, rc))
          /\ IF rc = 0
             THEN /\ \E unused \in UnusedTables :
                       env' = [env EXCEPT !.unused = unused,
                                          !.devices = rb_devices(unused)]
                  /\ pc' = "rb_devices"
                  /\ err' = err
             ELSE /\ pc' = "raised"
                  /\ err' = "ProcessExecutionError"
                  /\ env' = env
    /\ UNCHANGED <<ret, log>>
    /\ UNCHANGED mpFrame

\* if not devices: return
rb_none ==
    /\ pc = "rb_devices"
    /\ env.devices = <<>>
    /\ log' = Append(log, [msg |-> "no devices found to rescan", arg |-> None])
    /\ pc' = rb_returns
    /\ env' = rb_locals_dropped
    /\ UNCHANGED <<err, ret, cmdlog>>
    /\ UNCHANGED mpFrame

\* blockdev --rereadpt devices: a failure is logged and swallowed
rb_reread ==
    /\ pc = "rb_devices"
    /\ env.devices # <<>>
    /\ \E rc \in {0, 1} :
          /\ cmdlog' = Append(cmdlog, Ran(<<"blockdev", "--rereadpt">> \o env.devices, rc))
          /\ log' = IF rc = 0 THEN log
                    ELSE Append(log, [msg |-> "rescanning devices failed", arg |-> None])
    /\ pc' = "rb_settle"
    /\ UNCHANGED <<err, ret, env>>
    /\ UNCHANGED mpFrame

\* udevadm_settle(): udevadm settle may fail; the failure is logged and
\* treated as non-fatal
udevadm_settle(rc) ==
    IF rc = 0 THEN <<>>
    ELSE <<[msg |-> "udevadm settle failed", arg |-> None]>>

\* udevadm_settle(); return
rb_settle ==
    /\ pc = "rb_settle"
    /\ \E rc \in {0, 1} :
          /\ cmdlog' = Append(cmdlog, Ran(<<"udevadm", "settle">>, rc))
          /\ log' = log \o udevadm_settle(rc)
    /\ pc' = rb_returns
    /\ env' = rb_locals_dropped
    /\ UNCHANGED <<err, ret>>
    /\ UNCHANGED mpFrame

\* if not cache: os.unlink every cache file that exists
bk_unlink ==
    /\ pc = "bk_unlink"
    /\ env' = [env EXCEPT !.cachefiles = {}]
    /\ pc' = "bk_probe"
    /\ UNCHANGED <<err, ret, log, cmdlog>>
    /\ UNCHANGED mpFrame

\* blkid -o full, parsed into binfo; a failure of blkid propagates
bk_probe ==
    /\ pc = "bk_probe"
    /\ \E rc \in {0, 2} :
          /\ cmdlog' = Append(cmdlog, Ran(<<"blkid", "-o", "full">>, rc))
          /\ IF rc = 0
             THEN /\ \E b \in BlkidOutputs(BlkDevs \ {"/dev/sda2"}) :
                       env' = [env EXCEPT !.binfo = b]
                  /\ pc' = "dm_targets"
                  /\ err' = err
             ELSE /\ pc' = "raised"
                  /\ err' = "ProcessExecutionError"
                  /\ env' = env
    /\ UNCHANGED <<ret, log>>
    /\ UNCHANGED mpFrame

-----------------------------------------------------------------------------
(* detect_multipath(target_mountpoint)                                     *)

\* get_devices_for_mp: the lsblk rows mounted there, else the /proc/mounts
\* entries mounted there
get_devices_for_mp(found, procmounts) == IF found # {} THEN found ELSE procmounts

\* a slip in the inner test: the entry is compared with itself too
dm_match_self(other_devpath, other_data, devpath, target_uuid) ==
    dict_get(other_data, "UUID") = target_uuid

\* the test of the inner loop
dm_match(other_devpath, other_data, devpath, target_uuid) ==
    dict_get(other_data, "UUID") = target_uuid /\ other_devpath # devpath

RECURSIVE dm_scan(_, _, _)
\* the outer loop from entry k on: the value returned and the warnings logged
\* on the way
dm_scan(binfo, target_devs, k) ==
    IF k > Len(binfo) THEN [ret |-> FALSE, warn |-> <<>>]
    ELSE LET devpath == binfo[k].dev
             target_uuid == dict_get(binfo[k].data, "UUID")
             rest == dm_scan(binfo, target_devs, k + 1)
         IN  IF devpath \notin target_devs THEN rest
             ELSE IF ~truthy(target_uuid)
             THEN [ret |-> rest.ret,
                   warn |-> <<[msg |-> "Target partition doesn't have UUID assigned",
                               arg |-> devpath]>> \o rest.warn]
             ELSE IF \E m \in 1..Len(binfo) :
                        dm_match(binfo[m].dev, binfo[m].data, devpath, target_uuid)
             THEN [ret |-> TRUE, warn |-> <<>>]
             ELSE rest

\* target_devs = get_devices_for_mp(target_mountpoint): lsblk may fail
dm_targets ==
    /\ pc = "dm_targets"
    /\ \E rc \in {0, 1} :
          /\ cmdlog' = Append(cmdlog, Ran(<<"lsblk">>, rc))
          /\ IF rc = 0
             THEN /\ \E found \in SUBSET (BlkDevs \ {"/dev/sda2"}),
                        procmounts \in SUBSET (BlkDevs \ {"/dev/sda2"}) :
                       env' = [env EXCEPT !.target_devs =
                                  get_devices_for_mp(found, procmounts)]
                  /\ pc' = "dm_loop"
                  /\ err' = err
             ELSE /\ pc' = "raised"
                  /\ err' = "ProcessExecutionError"
                  /\ env' = env
    /\ UNCHANGED <<ret, log>>
    /\ UNCHANGED mpFrame

\* the two loops over binfo, and the return
dm_loop ==
    /\ pc = "dm_loop"
    /\ LET r == dm_scan(env.binfo, env.target_devs, 1)
       IN  /\ ret' = r.ret
           /\ log' = log \o r.warn
    /\ pc' = "done"
    /\ UNCHANGED <<err, cmdlog, env>>
    /\ UNCHANGED mpFrame

\* the wipe engine is not in use
WipeUnused ==
    /\ kind = "block"
    /\ file0 = <<>>
    /\ file = file0
    /\ mode = None
    /\ partitions = FALSE
    /\ ptdata = <<>>
    /\ offsets = <<>>
    /\ buflen = 0
    /\ count = 0
    /\ strict = FALSE
    /\ reader = None

InitDetect ==
    /\ Idle
    /\ WipeUnused
    /\ call = "detect_multipath"
    /\ pc = "rb_unused"
    /\ env \in {EnvIdle(cf) : cf \in SUBSET CacheFiles}

NextDetect ==
    \/ rb_unused
    \/ rb_none
    \/ rb_reread
    \/ rb_settle
    \/ bk_unlink
    \/ bk_probe
    \/ dm_targets
    \/ dm_loop

SpecDetect == InitDetect /\ [][NextDetect]_vars

-----------------------------------------------------------------------------
(* get_scsi_wwid(device) and get_multipath_wwids()                         *)

\* a Python str (a sequence of characters) or None
PyNone == [isNone |-> TRUE, val |-> <<>>]
PyStr(chars) == [isNone |-> FALSE, val |-> chars]

\* what scsi_id can print
ScsiOutputs == {<<>>, <<"\n">>, <<"w", "\n">>, <<"x", "\n">>, <<"w">>}

RECURSIVE rstrip_newline(_)
\* out.rstrip('\n')
rstrip_newline(out) ==
    IF out # <<>> /\ out[Len(out)] = "\n"
    THEN rstrip_newline(SubSeq(out, 1, Len(out) - 1))
    ELSE out

\* get_scsi_wwid: the stripped output, None when scsi_id fails
get_scsi_wwid(rc, out) == IF rc = 0 THEN PyStr(rstrip_newline(out)) ELSE PyNone

\* a slip in the filter: only None is discarded
gw_keeps_not_none(wwid) == ~wwid.isNone

\* if wwid: neither None nor the empty string
gw_keeps(wwid) == ~wwid.isNone /\ wwid.val # <<>>

\* devuuids = [(d, i['UUID']) for d, i in blkid().items() if 'UUID' in i]
RECURSIVE gw_devuuids(_)
gw_devuuids(binfo) ==
    IF binfo = <<>> THEN <<>>
    ELSE (IF "UUID" \in DOMAIN Head(binfo).data
          THEN <<[dev |-> Head(binfo).dev, uuid |-> Head(binfo).data.UUID]>>
          ELSE <<>>) \o gw_devuuids(Tail(binfo))

\* the loop over itertools.combinations(devuuids, 2): of a pair with equal
\* UUIDs the parent disk of the first device is added
gw_multipath_devices(devuuids) ==
    {get_blockdev_for_partition(devuuids[a].dev)[1] :
        a \in {x \in 1..Len(devuuids) :
                 \E y \in (x + 1)..Len(devuuids) :
                     devuuids[x].uuid = devuuids[y].uuid}}

\* blkid(): blkid -o full with the cache left alone; a failure propagates
gw_blkid ==
    /\ pc = "gw_blkid"
    /\ \E rc \in {0, 2} :
          /\ cmdlog' = Append(cmdlog, Ran(<<"blkid", "-o", "full">>, rc))
          /\ IF rc = 0
             THEN /\ \E b \in BlkidOutputs(BlkDevs) : env' = [env EXCEPT !.binfo = b]
                  /\ pc' = "gw_pairs"
                  /\ err' = err
             ELSE /\ pc' = "raised"
                  /\ err' = "ProcessExecutionError"
                  /\ env' = env
    /\ UNCHANGED <<ret, log>>
    /\ UNCHANGED mpFrame

\* the loop over the pairs
gw_pairs ==
    /\ pc = "gw_pairs"
    /\ LET found == gw_multipath_devices(gw_devuuids(env.binfo))
       IN  env' = [env EXCEPT !.multipath_devices = found, !.pending = found]
    /\ pc' = "gw_lookup"
    /\ UNCHANGED <<err, ret, log, cmdlog>>
    /\ UNCHANGED mpFrame

\* one pass of "for device in multipath_devices", in the order of the set
gw_lookup ==
    /\ pc = "gw_lookup"
    /\ \E device \in env.pending, rc \in {0, 1}, out \in ScsiOutputs :
          LET wwid == get_scsi_wwid(rc, out)
          IN  /\ rc # 0 => out = <<>>
              /\ cmdlog' = Append(cmdlog, Ran(<<"scsi_id", device>>, rc))
              /\ log' = IF rc = 0 THEN log
                        ELSE Append(log, [msg |-> "Failed to get WWID", arg |-> device])
              /\ env' = [env EXCEPT
                            !.pending = @ \ {device},
                            !.multipath_wwids =
                                IF gw_keeps(wwid) THEN @ \cup {wwid} ELSE @]
    /\ UNCHANGED <<pc, err, ret>>
    /\ UNCHANGED mpFrame

\* return multipath_wwids
gw_return ==
    /\ pc = "gw_lookup"
    /\ env.pending = {}
    /\ ret' = env.multipath_wwids
    /\ pc' = "done"
    /\ UNCHANGED <<err, log, cmdlog, env>>
    /\ UNCHANGED mpFrame

InitWwids ==
    /\ Idle
    /\ WipeUnused
    /\ call = "get_multipath_wwids"
    /\ pc = "gw_blkid"
    /\ env = EnvIdle(CacheFiles)

NextWwids ==
    \/ gw_blkid
    \/ gw_pairs
    \/ gw_lookup
    \/ gw_return

SpecWwids == InitWwids /\ [][NextWwids]_vars

-----------------------------------------------------------------------------
(* Properties of the multipath detector (checked under SpecDetect and      *)
(* SpecWwids).                                                             *)

\* entry a of binfo carries a UUID that is not empty
HasUuid(a) ==
    "UUID" \in DOMAIN env.binfo[a].data /\ env.binfo[a].data.UUID # ""

\* some entry of a target device carries a non-empty UUID that an entry of
\* another device path carries too
TargetSharesUuid ==
    \E a, b \in 1..Len(env.binfo) :
        /\ env.binfo[a].dev \in env.target_devs
        /\ HasUuid(a)
        /\ env.binfo[b].dev # env.binfo[a].dev
        /\ "UUID" \in DOMAIN env.binfo[b].data
        /\ env.binfo[b].data.UUID = env.binfo[a].data.UUID

\* C8: detect_multipath returns True exactly when some probed entry of a
\* device backing the target mountpoint carries a non-empty UUID that an
\* entry of another device path carries too, and False otherwise; a target
\* entry without UUID raises nothing: the call is only ever ended by the
\* failure of an external command.
C8_DetectMultipath ==
    call = "detect_multipath" =>
        /\ pc = "done" => ret = TargetSharesUuid
        /\ pc = "raised" =>
              /\ err = "ProcessExecutionError"
              /\ cmdlog[Len(cmdlog)].rc # 0
        /\ pc = "dm_loop" => ENABLED dm_loop

\* detect_multipath has returned True although it passed a target entry
\* without UUID on the way
C8_Witness ==
    /\ call = "detect_multipath"
    /\ pc = "done"
    /\ ret = TRUE
    /\ \E a \in 1..Len(env.binfo) :
          env.binfo[a].dev \in env.target_devs /\ ~HasUuid(a)
    /\ \E j \in 1..Len(log) :
          log[j].msg = "Target partition doesn't have UUID assigned"

\* the disks scsi_id was run on
LookedUp ==
    {cmdlog[k].cmd[2] : k \in {j \in 1..Len(cmdlog) : cmdlog[j].cmd[1] = "scsi_id"}}

\* the parent disk of a device node
ParentDisk(dev) == IF HasPartitionFile(dev) THEN DiskOf(dev) ELSE dev

\* the parent disks of the devices that share their UUID with another
\* device path
SharingParents ==
    {ParentDisk(env.binfo[a].dev) :
        a \in {x \in 1..Len(env.binfo) :
                 /\ "UUID" \in DOMAIN env.binfo[x].data
                 /\ \E y \in 1..Len(env.binfo) :
                       /\ y # x
                       /\ "UUID" \in DOMAIN env.binfo[y].data
                       /\ env.binfo[y].data.UUID = env.binfo[x].data.UUID}}

\* no probed entry carries an empty UUID
NoEmptyUuid ==
    \A a \in 1..Len(env.binfo) :
        "UUID" \in DOMAIN env.binfo[a].data => env.binfo[a].data.UUID # ""

\* C9: when get_multipath_wwids has returned, the disks the WWID lookup was
\* run on are the parent disks of the devices that share their UUID with
\* another device path: both sides of every pair (stated here for probes
\* without empty UUIDs, where sharing a UUID is not in doubt).
C9_BothSidesLookedUp ==
    (call = "get_multipath_wwids" /\ pc = "done" /\ NoEmptyUuid) =>
        LookedUp = SharingParents

\* C10: the set get_multipath_wwids builds and returns never holds None or
\* the empty string; a lookup that fails or returns nothing does not end the
\* call (only the failure of blkid, before any lookup, does), and when the
\* call has returned every candidate disk was looked up.
C10_NoBlankWwid ==
    call = "get_multipath_wwids" =>
        /\ \A w \in env.multipath_wwids : ~w.isNone /\ w.val # <<>>
        /\ pc = "done" =>
              /\ ret = env.multipath_wwids
              /\ \A d \in env.multipath_devices : d \in LookedUp
        /\ pc = "raised" =>
              /\ LookedUp = {}
              /\ cmdlog[Len(cmdlog)] = [cmd |-> <<"blkid", "-o", "full">>, rc |-> 2]

\* get_multipath_wwids has returned a WWID after one lookup failed and
\* another printed nothing
C10_Witness ==
    /\ call = "get_multipath_wwids"
    /\ pc = "done"
    /\ ret # {}
    /\ \E k \in 1..Len(cmdlog) : cmdlog[k].cmd[1] = "scsi_id" /\ cmdlog[k].rc # 0
    /\ Cardinality(LookedUp) > Cardinality(ret) + 1

-----------------------------------------------------------------------------
(* get_installable_blockdevs(include_removable, min_size)                  *)

\* an int argument or result, and the int a string of decimal digits stands
\* for; sizes are counted in MiB here, so that 2 GiB is a machine integer
PyInt(n) == [isNone |-> FALSE, val |-> n]
\* None where an int is expected
PyNoInt == [isNone |-> TRUE, val |-> 0]

RECURSIVE int(_)
int(s) == IF Len(s) = 0 THEN 0
          ELSE 10 * int(SubSeq(s, 1, Len(s) - 1)) + s[Len(s)]

\* data.get(key, default)
dict_get_default(data, key, default) ==
    IF key \in DOMAIN data THEN data[key] ELSE default

\* the default of min_size: 1024**3 bytes
DefaultMinSize == 1024

\* the kernel names lsblk --nodeps can list, in the order of its lines
KNames == <<"sda", "sdb", "sdc">>

\* the SIZE column: 500 MiB, 1 GiB and 2 GiB
SizeStrings == {<<5, 0, 0>>, <<1, 0, 2, 4>>, <<2, 0, 4, 8>>}

\* the rows of the devices: the SIZE key may be missing
InstallRows ==
    [RM : {"0", "1"}, RO : {"0", "1"}, TYPE : {"disk", "part"}] \cup
    [RM : {"0", "1"}, RO : {"0", "1"}, TYPE : {"disk", "part"}, SIZE : SizeStrings]

\* what get_unused_blockdev_info() can return
InstallTables ==
    UNION {[D -> InstallRows] : D \in SUBSET {KNames[k] : k \in 1..Len(KNames)}}

\* the keys of a table in the order the loop visits them
items(unused) == SelectSeq(KNames, LAMBDA d : d \in DOMAIN unused)

\* a slip in the size test: a device of exactly min_size is dropped
gi_keeps_above_min(data, include_removable, min_size) ==
    /\ ~(~include_removable /\ dict_get(data, "RM") = "1")
    /\ ~(dict_get(data, "RO") # "0" \/ dict_get(data, "TYPE") # "disk")
    /\ ~(~min_size.isNone /\ int(dict_get_default(data, "SIZE", <<0>>)) <= min_size.val)

\* the row passes the three tests of the loop (none of them continues)
gi_keeps(data, include_removable, min_size) ==
    /\ ~(~include_removable /\ dict_get(data, "RM") = "1")
    /\ ~(dict_get(data, "RO") # "0" \/ dict_get(data, "TYPE") # "disk")
    /\ ~(~min_size.isNone /\ int(dict_get_default(data, "SIZE", <<0>>)) < min_size.val)

\* the locals of get_installable_blockdevs before the call
InstallIdle(ir, ms) ==
    [include_removable |-> ir, min_size |-> ms, unused |-> <<>>,
     todo |-> <<>>, good |-> <<>>]

\* unused = get_unused_blockdev_info(): lsblk may fail
gi_unused ==
    /\ pc = "gi_unused"
    /\ \E rc \in {0, 1} :
          /\ cmdlog' = Append(cmdlog, Ran(<<"lsblk">>, rc))
          /\ IF rc = 0
             THEN /\ \E unused \in InstallTables :
                       env' = [env EXCEPT !.unused = unused, !.todo = items(unused)]
                  /\ pc' = "gi_for"
                  /\ err' = err
             ELSE /\ pc' = "raised"
                  /\ err' = "ProcessExecutionError"
                  /\ env' = env
    /\ UNCHANGED <<ret, log>>
    /\ UNCHANGED mpFrame

\* one turn of the loop that ends in a continue
gi_continue ==
    /\ pc = "gi_for"
    /\ env.todo # <<>>
    /\ ~gi_keeps(env.unused[Head(env.todo)], env.include_removable, env.min_size)
    /\ env' = [env EXCEPT !.todo = Tail(env.todo)]
    /\ UNCHANGED <<pc, err, ret, log, cmdlog>>
    /\ UNCHANGED mpFrame

\* one turn of the loop that ends in good.append(devname)
gi_append ==
    /\ pc = "gi_for"
    /\ env.todo # <<>>
    /\ gi_keeps(env.unused[Head(env.todo)], env.include_removable, env.min_size)
    /\ env' = [env EXCEPT !.todo = Tail(env.todo),
                          !.good = Append(env.good, Head(env.todo))]
    /\ UNCHANGED <<pc, err, ret, log, cmdlog>>
    /\ UNCHANGED mpFrame

\* return good
gi_return ==
    /\ pc = "gi_for"
    /\ env.todo = <<>>
    /\ ret' = env.good
    /\ pc' = "done"
    /\ UNCHANGED <<err, log, cmdlog, env>>
    /\ UNCHANGED mpFrame

InitInstall ==
    /\ Idle
    /\ WipeUnused
    /\ call = "get_installable_blockdevs"
    /\ pc = "gi_unused"
    /\ env \in {InstallIdle(ir, ms) :
                  ir \in BOOLEAN, ms \in {PyNoInt, PyInt(0), PyInt(DefaultMinSize)}}

NextInstall ==
    \/ gi_unused
    \/ gi_continue
    \/ gi_append
    \/ gi_return

SpecInstall == InitInstall /\ [][NextInstall]_vars

-----------------------------------------------------------------------------
(* Properties of get_installable_blockdevs (checked under SpecInstall).    *)

\* the size a row states, no SIZE counting as 0
RowSize(data) == IF "SIZE" \in DOMAIN data THEN int(data.SIZE) ELSE 0

\* the devices the filter is meant to keep
Installable ==
    {d \in DOMAIN env.unused :
        /\ env.include_removable \/ env.unused[d].RM # "1"
        /\ env.unused[d].RO = "0"
        /\ env.unused[d].TYPE = "disk"
        /\ env.min_size.isNone \/ RowSize(env.unused[d]) >= env.min_size.val}

\* the kernel names of the list returned
Returned == {ret[k] : k \in 1..Len(ret)}

\* the call was made with the default arguments
InstallDefaults ==
    /\ ~env.include_removable
    /\ env.min_size = PyInt(DefaultMinSize)

\* C11 as stated: the call returns exactly the devices that pass the four
\* tests, and a row with no SIZE is excluded whenever min_size is not None.
C11_AsStated ==
    (call = "get_installable_blockdevs" /\ pc = "done") =>
        /\ Returned = Installable
        /\ ~env.min_size.isNone =>
              \A d \in DOMAIN env.unused :
                  "SIZE" \notin DOMAIN env.unused[d] => d \notin Returned

\* C11: get_installable_blockdevs returns exactly the kernel names of the
\* unused devices whose row passes all of: include_removable or RM != "1";
\* RO == "0"; TYPE == "disk"; min_size is None or int(SIZE, missing counted
\* as 0) >= min_size, each name once; a row with no SIZE is excluded whenever
\* min_size is a positive number, and only the failure of lsblk ends the call
\* with an error.
C11_Installable ==
    call = "get_installable_blockdevs" =>
        /\ pc = "done" =>
              /\ Returned = Installable
              /\ Len(ret) = Cardinality(Returned)
              /\ (~env.min_size.isNone /\ env.min_size.val > 0) =>
                    \A d \in DOMAIN env.unused :
                        "SIZE" \notin DOMAIN env.unused[d] => d \notin Returned
        /\ pc = "raised" =>
              /\ err = "ProcessExecutionError"
              /\ cmdlog[Len(cmdlog)].rc # 0

\* the table of the example (a removable 2 GiB disk, a fixed 500 MiB disk
\* and a fixed 2 GiB disk) has been filtered with the defaults, and only the
\* third device was returned
C11_Witness ==
    /\ call = "get_installable_blockdevs"
    /\ pc = "done"
    /\ InstallDefaults
    /\ DOMAIN env.unused = {"sda", "sdb", "sdc"}
    /\ env.unused["sda"] = [RM |-> "1", RO |-> "0", TYPE |-> "disk", SIZE |-> <<2, 0, 4, 8>>]
    /\ env.unused["sdb"] = [RM |-> "0", RO |-> "0", TYPE |-> "disk", SIZE |-> <<5, 0, 0>>]
    /\ env.unused["sdc"] = [RM |-> "0", RO |-> "0", TYPE |-> "disk", SIZE |-> <<2, 0, 4, 8>>]
    /\ ret = <<"sdc">>

-----------------------------------------------------------------------------
(* sysfs: get_blockdev_for_partition(devpath), sys_block_path(devname) and *)
(* sysfs_partition_data(blockdev, sysfs_path).  A path under               *)
(* /sys/class/block is the sequence of its components below that          *)
(* directory: /sys/class/block/sda/sda1 is <<"sda", "sda1">>.              *)

\* the largest start and size of a partition, in sectors
MaxSectors == 2

\* the logical block sizes a disk can have
BlockSizes == {512, 4096}

\* the whole disks of sysfs (they have a queue directory) and the
\* partitions below each
SysDisks == {"sda", "sdb", "sdc", "cciss!c0d0"}
SysParts(d) ==
    CASE d = "sda" -> {"sda1", "sda2"}
      [] d = "sdb" -> {"sdb1"}
      [] OTHER -> {}

\* os.listdir of a sysfs directory, in the order of the enumeration
listdir(path) ==
    IF Len(path) = 1 /\ path[1] = "sda"
    THEN <<"holders", "sda1", "queue", "sda2", "size">>
    ELSE IF Len(path) = 1 /\ path[1] = "sdb"
    THEN <<"holders", "queue", "sdb1", "size">>
    ELSE IF Len(path) = 1 /\ path[1] \in SysDisks
    THEN <<"holders", "queue", "size">>
    ELSE <<"holders", "partition", "size", "start">>

\* os.path.exists of a sysfs path
exists(path) ==
    \/ Len(path) = 1 /\ path[1] \in SysClassBlock
    \/ Len(path) = 2 /\ path[1] \in SysDisks /\ path[2] \in SysParts(path[1])

\* path/queue/logical_block_size is a file: only a whole disk has a queue
has_queue(path) == Len(path) = 1 /\ path[1] \in SysDisks

\* partd/partition is a file
is_partition_dir(path, d) ==
    \/ Len(path) = 1 /\ path[1] \in SysDisks /\ d \in SysParts(path[1])

\* the contents of sysfs a call can find: the block size of every disk and
\* the start and size (in sectors) of every partition of sda
SysContents ==
    [lbs : [{"sda", "sdc"} -> BlockSizes],
     part : [{"sda1", "sda2"} -> [start : 0..MaxSectors, size : 0..MaxSectors]]]

\* int(util.load_file(path/queue/logical_block_size))
logical_block_size(sysfs, path) ==
    IF path[1] \in DOMAIN sysfs.lbs THEN sysfs.lbs[path[1]] ELSE 512

\* int(util.load_file(partd/sfile)) for a partition directory
part_attr(sysfs, d, sfile) ==
    IF sfile = "partition" THEN (IF d = "sda2" THEN 2 ELSE 1)
    ELSE IF d \in DOMAIN sysfs.part THEN sysfs.part[d][sfile]
    ELSE 0

\* the components sys_block_path(devname) joins, where a syspath exists
sys_block_path(devname) ==
    LET r == get_blockdev_for_partition(devname)
    IN  (IF truthy(r[2]) THEN <<basename(r[1])>> ELSE <<>>) \o <<basename(devname)>>

\* the locals of the sysfs calls before the call
SysIdle(sysfs, blockdev, sysfs_path) ==
    [sysfs |-> sysfs, blockdev |-> blockdev, sysfs_path |-> sysfs_path,
     partnum |-> None, sysfs_prefix |-> <<>>, block_size |-> 0,
     queues |-> <<>>, where |-> None, first |-> <<>>, second |-> <<>>]

\* what the sysfs actions leave alone
sysFrame == <<log, cmdlog>>

\* if blockdev is None and sysfs_path is None: raise ValueError
sp_both_none ==
    /\ pc = "sp_args"
    /\ env.blockdev = None /\ env.sysfs_path.isNone
    /\ pc' = "raised"
    /\ err' = "ValueError"
    /\ env' = [env EXCEPT !.where = "sysfs_partition_data"]
    /\ UNCHANGED <<ret, sysFrame>>
    /\ UNCHANGED mpFrame

\* if blockdev: sysfs_path = sys_block_path(blockdev)
sp_sys_block_path ==
    /\ pc = "sp_args"
    /\ env.blockdev # None
    /\ IF gb_no_syspath(env.blockdev)
       THEN /\ pc' = "raised"
            /\ err' = "ValueError"
            /\ env' = [env EXCEPT !.where = "get_blockdev_for_partition"]
       ELSE IF ~exists(sys_block_path(env.blockdev))
       THEN /\ pc' = "raised"
            /\ err' = "OSError"
            /\ env' = [env EXCEPT !.where = "sys_block_path"]
       ELSE /\ pc' = "sp_parent"
            /\ err' = err
            /\ env' = [env EXCEPT !.sysfs_path = PyStr(sys_block_path(env.blockdev))]
    /\ UNCHANGED <<ret, sysFrame>>
    /\ UNCHANGED mpFrame

\* blockdev is None and sysfs_path is given: the if is not taken
sp_given_path ==
    /\ pc = "sp_args"
    /\ env.blockdev = None /\ ~env.sysfs_path.isNone
    /\ pc' = "sp_parent"
    /\ UNCHANGED <<err, ret, env, sysFrame>>
    /\ UNCHANGED mpFrame

\* (parent, partnum) = get_blockdev_for_partition(blockdev) with blockdev
\* None: os.path.realpath(None) raises, TypeError or AttributeError with the
\* version of Python
sp_parent_of_none ==
    /\ pc = "sp_parent"
    /\ env.blockdev = None
    /\ pc' = "raised"
    /\ \E e \in {"TypeError", "AttributeError"} : err' = e
    /\ env' = [env EXCEPT !.where = "get_blockdev_for_partition"]
    /\ UNCHANGED <<ret, sysFrame>>
    /\ UNCHANGED mpFrame

\* (parent, partnum) = get_blockdev_for_partition(blockdev); sysfs_prefix is
\* sysfs_path, or sys_block_path(parent) for a partition
sp_parent ==
    /\ pc = "sp_parent"
    /\ env.blockdev # None
    /\ LET r == get_blockdev_for_partition(env.blockdev)
       IN  env' = [env EXCEPT !.partnum = r[2],
                              !.sysfs_prefix = IF truthy(r[2])
                                               THEN sys_block_path(r[1])
                                               ELSE env.sysfs_path.val]
    /\ pc' = "sp_block_size"
    /\ UNCHANGED <<err, ret, sysFrame>>
    /\ UNCHANGED mpFrame

\* block_size = int(load_file(sysfs_prefix/queue/logical_block_size))
sp_block_size ==
    /\ pc = "sp_block_size"
    /\ IF has_queue(env.sysfs_prefix)
       THEN /\ env' = [env EXCEPT
                          !.block_size = logical_block_size(env.sysfs, env.sysfs_prefix),
                          !.queues = Append(env.queues, env.sysfs_prefix)]
            /\ pc' = "sp_block_size_again"
            /\ err' = err
       ELSE /\ env' = [env EXCEPT !.queues = Append(env.queues, env.sysfs_prefix),
                                  !.where = "load_file"]
            /\ pc' = "raised"
            /\ err' = "IOError"
    /\ UNCHANGED <<ret, sysFrame>>
    /\ UNCHANGED mpFrame

\* block_size = int(load_file(sysfs_path/queue/logical_block_size))
sp_block_size_again ==
    /\ pc = "sp_block_size_again"
    /\ IF has_queue(env.sysfs_path.val)
       THEN /\ env' = [env EXCEPT
                          !.block_size = logical_block_size(env.sysfs, env.sysfs_path.val),
                          !.queues = Append(env.queues, env.sysfs_path.val)]
            /\ pc' = "sp_listdir"
            /\ err' = err
       ELSE /\ env' = [env EXCEPT !.queues = Append(env.queues, env.sysfs_path.val),
                                  !.where = "load_file"]
            /\ pc' = "raised"
            /\ err' = "IOError"
    /\ UNCHANGED <<ret, sysFrame>>
    /\ UNCHANGED mpFrame

RECURSIVE sp_ptdata(_, _, _, _)
\* the loop over os.listdir(sysfs_path) from entry k on: the tuples appended
sp_ptdata(sysfs, path, unit, k) ==
    LET dirs == listdir(path)
    IN  IF k > Len(dirs) THEN <<>>
        ELSE IF ~is_partition_dir(path, dirs[k])
        THEN sp_ptdata(sysfs, path, unit, k + 1)
        ELSE <<[kname |-> dirs[k],
                number |-> part_attr(sysfs, dirs[k], "partition"),
                start |-> part_attr(sysfs, dirs[k], "start") * unit,
                size |-> part_attr(sysfs, dirs[k], "size") * unit]>>
             \o sp_ptdata(sysfs, path, unit, k + 1)

\* the loop over the children of sysfs_path, and return ptdata
sp_listdir ==
    /\ pc = "sp_listdir"
    /\ ret' = sp_ptdata(env.sysfs, env.sysfs_path.val, env.block_size, 1)
    /\ pc' = "done"
    /\ UNCHANGED <<err, env, sysFrame>>
    /\ UNCHANGED mpFrame

\* get_blockdev_for_partition(devpath), called by itself
gb_call ==
    /\ pc = "gb_call"
    /\ IF gb_no_syspath(env.blockdev)
       THEN /\ pc' = "raised"
            /\ err' = "ValueError"
            /\ env' = [env EXCEPT !.where = "get_blockdev_for_partition"]
            /\ ret' = ret
       ELSE /\ pc' = "gb_again"
            /\ err' = err
            /\ env' = [env EXCEPT !.first = get_blockdev_for_partition(env.blockdev)]
            /\ ret' = get_blockdev_for_partition(env.blockdev)
    /\ UNCHANGED sysFrame
    /\ UNCHANGED mpFrame

\* the caller calls it again on the path it returned
gb_again ==
    /\ pc = "gb_again"
    /\ IF gb_no_syspath(env.first[1])
       THEN /\ pc' = "raised"
            /\ err' = "ValueError"
            /\ env' = [env EXCEPT !.where = "get_blockdev_for_partition"]
            /\ ret' = ret
       ELSE /\ pc' = "done"
            /\ err' = err
            /\ env' = [env EXCEPT !.second = get_blockdev_for_partition(env.first[1])]
            /\ ret' = get_blockdev_for_partition(env.first[1])
    /\ UNCHANGED sysFrame
    /\ UNCHANGED mpFrame

\* the device paths a caller passes
DevPaths ==
    {"/dev/sda", "/dev/sda1", "/dev/sda2", "/dev/sdb", "/dev/sdb1", "/dev/sdc",
     "/dev/cciss/c0d0", "/dev/disk/by-label/data", "/dev/disk/by-label/root",
     "/dev/nosuch"}

\* the sysfs paths a caller passes
SysPaths == {<<"sda">>, <<"sdc">>, <<"sda", "sda1">>}

InitSysfs ==
    /\ Idle
    /\ WipeUnused
    /\ \/ /\ call = "sysfs_partition_data"
          /\ pc = "sp_args"
          /\ \E sysfs \in SysContents,
                blockdev \in {None, "/dev/sda", "/dev/sda1", "/dev/sdc",
                              "/dev/disk/by-label/data", "/dev/nosuch"},
                sysfs_path \in {PyNone} \cup {PyStr(p) : p \in SysPaths} :
                env = SysIdle(sysfs, blockdev, sysfs_path)
       \/ /\ call = "get_blockdev_for_partition"
          /\ pc = "gb_call"
          /\ \E sysfs \in SysContents, devpath \in DevPaths :
                env = SysIdle(sysfs, devpath, PyNone)

NextSysfs ==
    \/ sp_both_none
    \/ sp_sys_block_path
    \/ sp_given_path
    \/ sp_parent_of_none
    \/ sp_parent
    \/ sp_block_size
    \/ sp_block_size_again
    \/ sp_listdir
    \/ gb_call
    \/ gb_again

SpecSysfs == InitSysfs /\ [][NextSysfs]_vars

-----------------------------------------------------------------------------
(* Properties of the sysfs readers (checked under SpecSysfs).              *)

\* the call has ended, by returning or by raising
Ended == pc \in {"done", "raised"}

\* the disk a sysfs path lies on
PathDisk(path) == path[1]

\* the tuples of the partitions below a sysfs path, in bytes of the block
\* size of the disk the path lies on
Geometry(path) ==
    {[kname |-> d,
      number |-> IF d = "sda2" THEN 2 ELSE 1,
      start |-> env.sysfs.part[d].start * env.sysfs.lbs[PathDisk(path)],
      size |-> env.sysfs.part[d].size * env.sysfs.lbs[PathDisk(path)]] :
        d \in (IF Len(path) = 1 THEN SysParts(path[1]) ELSE {})}

\* the tuples of the list returned
Tuples == {ret[k] : k \in 1..Len(ret)}

\* sysfs_partition_data was called with a device node that exists, a whole
\* disk or a partition
OnDevice ==
    /\ call = "sysfs_partition_data"
    /\ env.blockdev \in {"/dev/sda", "/dev/sda1", "/dev/sdc"}

\* C12: every tuple sysfs_partition_data returns carries the raw start and
\* size multiplied by the logical block size of the parent disk, also when
\* blockdev is a partition: the sector size is only ever read from a node
\* that has a queue directory, never from the partition's own directory, so
\* the call on an existing device returns; only the children with a
\* 'partition' file produce a tuple.
C12_ParentSectorSize ==
    OnDevice =>
        /\ \A k \in 1..Len(env.queues) : has_queue(env.queues[k])
        /\ Ended => (pc = "done" /\ Tuples = Geometry(env.sysfs_path.val))

\* C13: get_blockdev_for_partition on a device path whose node has no
\* 'partition' file returns (that same path, None), for a symbolic link too,
\* and the call on the path returned gives the identical pair.
C13_Idempotent ==
    (/\ call = "get_blockdev_for_partition"
     /\ pc \in {"gb_again", "done"}
     /\ ~HasPartitionFile(realpath(env.blockdev))) =>
        /\ env.first = <<env.blockdev, None>>
        /\ pc = "done" => env.second = env.first

\* C15: sysfs_partition_data raises its ValueError exactly when blockdev and
\* sysfs_path are both None; called with a sysfs path alone it returns the
\* geometry found under that path.
C15_ValueErrorIff ==
    (call = "sysfs_partition_data" /\ Ended) =>
        /\ (/\ pc = "raised"
            /\ err = "ValueError"
            /\ env.where = "sysfs_partition_data")
              <=> (env.blockdev = None /\ env.sysfs_path.isNone)
        /\ (env.blockdev = None /\ ~env.sysfs_path.isNone /\ has_queue(env.sysfs_path.val)) =>
              (pc = "done" /\ Tuples = Geometry(env.sysfs_path.val))

-----------------------------------------------------------------------------
(* stop_all_unused_multipath_devices(), and rescan_block_devices() called  *)
(* by itself                                                               *)

\* what util.which('multipath') can return
WhichMultipath == {None, "/sbin/multipath"}

\* a slip in the exit codes: only 0 counts as success
sm_rcs_zero_only == {0}

\* the exit codes of multipath -F that are no failure: rcs=[0, 1]
sm_rcs == {0, 1}

\* if not multipath: return
sm_absent ==
    /\ pc = "sm_which"
    /\ env.multipath = None
    /\ pc' = "done"
    /\ UNCHANGED <<err, ret, log, cmdlog, env>>
    /\ UNCHANGED mpFrame

\* util.subp([multipath, '-F'], rcs=[0, 1]): a failure is logged
sm_flush ==
    /\ pc = "sm_which"
    /\ env.multipath # None
    /\ \E rc \in {0, 1, 2} :
          /\ cmdlog' = Append(cmdlog, Ran(<<env.multipath, "-F">>, rc))
          /\ log' = IF rc \in sm_rcs THEN log
                    ELSE Append(log, [msg |-> "Failed to stop multipath devices",
                                      arg |-> None])
    /\ pc' = "done"
    /\ UNCHANGED <<err, ret, env>>
    /\ UNCHANGED mpFrame

InitRescan ==
    /\ Idle
    /\ WipeUnused
    /\ \/ /\ call = "rescan_block_devices"
          /\ pc = "rb_unused"
          /\ env = EnvIdle(CacheFiles)
       \/ /\ call = "stop_all_unused_multipath_devices"
          /\ pc = "sm_which"
          /\ \E m \in WhichMultipath :
                env = [EnvIdle(CacheFiles) EXCEPT !.multipath = m]

NextRescan ==
    \/ rb_unused
    \/ rb_none
    \/ rb_reread
    \/ rb_settle
    \/ sm_absent
    \/ sm_flush

SpecRescan == InitRescan /\ [][NextRescan]_vars

-----------------------------------------------------------------------------
(* Properties of the rescan and the multipath flush (checked under         *)
(* SpecRescan).                                                            *)

\* the runs of a command so far
RunsOf(name) == {k \in 1..Len(cmdlog) : cmdlog[k].cmd[1] = name}

\* a message was logged
Logged(msg) == \E k \in 1..Len(log) : log[k].msg = msg

-----------------------------------------------------------------------------
(* Properties of quick_zero on the partitions of a block device (checked   *)
(* under SpecZero).                                                        *)

\* quick_zero(path, partitions=True) on a block device, past its open
PartitionCase ==
    /\ call = "quick_zero"
    /\ kind = "block"
    /\ partitions
    /\ Measured

\* C16: quick_zero(path, partitions=True) on a block device never aborts on
\* a partition smaller than the window: for every partition (start, size)
\* the two offsets computed for it are not negative (none is taken relative
\* to the end of the device) and every write made on its behalf lies inside
\* [start, start + size).
C16_PartitionWindows ==
    PartitionCase =>
        /\ pc # "raised"
        /\ \A k \in 1..Len(ptdata) :
              /\ offsets[2 * k + 1] >= 0
              /\ offsets[2 * k + 2] >= 0
              /\ \A j \in 1..Len(writes) :
                    writes[j].idx \in {2 * k + 1, 2 * k + 2} =>
                        /\ writes[j].pos >= ptdata[k][3]
                        /\ writes[j].pos + writes[j].n <= ptdata[k][3] + ptdata[k][4]

-----------------------------------------------------------------------------
(* Properties of the order of the steps of detect_multipath (checked under *)
(* SpecDetect).                                                            *)

\* the devices of the unused table that qualify for the re-read, in the
\* order of the table
Qualifying ==
    SelectSeq(<<"/dev/sda", "/dev/sdb">>,
              LAMBDA d : /\ d \in DOMAIN env.unused
                         /\ env.unused[d].RM # "1"
                         /\ env.unused[d].RO = "0"
                         /\ env.unused[d].TYPE = "disk")

\* every run of command a comes before every run of command b
Before(a, b) == \A j \in RunsOf(a), k \in RunsOf(b) : j < k

\* the order of the steps that have run: lsblk for the unused table, the
\* re-read, the settle, the probe, lsblk for the target's devices
StepsInOrder ==
    /\ Before("blockdev", "udevadm")
    /\ Before("udevadm", "blkid")
    /\ Before("blockdev", "blkid")
    /\ \A k \in 1..Len(cmdlog) : cmdlog[k].cmd[1] \in {"blockdev", "udevadm", "blkid"}
          => cmdlog[1].cmd[1] = "lsblk" /\ k > 1
    /\ \A k \in RunsOf("lsblk") : k > 1 => (RunsOf("blkid") # {} /\ k = Len(cmdlog))
    /\ Cardinality(RunsOf("blockdev")) <= 1
    /\ Cardinality(RunsOf("udevadm")) <= 1
    /\ Cardinality(RunsOf("blkid")) <= 1

\* C17 as stated: the settle always happens between the rescan step and the
\* probe.
C17_AsStated ==
    (call = "detect_multipath" /\ RunsOf("blkid") # {}) =>
        /\ StepsInOrder
        /\ RunsOf("udevadm") # {}
        /\ env.cachefiles = {}

\* C17: in every run of detect_multipath the steps that run do so in this
\* order: the re-read of exactly the qualifying devices (unused, RM != 1,
\* RO == 0, TYPE == disk), the settle, the deletion of the cache files, the
\* probe, the resolution of the target's devices.  Whenever the re-read has
\* run, also when it failed, the settle runs before the probe; when no device
\* qualifies neither the re-read nor the settle runs.  The probe never runs
\* while a known cache file exists.
C17_StepOrder ==
    call = "detect_multipath" =>
        /\ StepsInOrder
        /\ pc = "rb_settle" =>
              /\ Qualifying # <<>>
              /\ cmdlog[Len(cmdlog)].cmd = <<"blockdev", "--rereadpt">> \o Qualifying
        /\ (pc = "rb_devices" /\ Qualifying = <<>>) => ~ENABLED rb_reread
        /\ RunsOf("blkid") # {} =>
              /\ RunsOf("udevadm") # {} <=> RunsOf("blockdev") # {}
              /\ env.cachefiles = {}
        /\ pc = "bk_probe" => env.cachefiles = {}
        /\ pc \in {"dm_loop", "done"} => cmdlog[Len(cmdlog)].cmd[1] = "lsblk"

\* detect_multipath has returned after a failed re-read: the settle, the
\* probe and the resolution of the target's devices followed it
C17_Witness ==
    /\ call = "detect_multipath"
    /\ pc = "done"
    /\ Len(cmdlog) = 5
    /\ cmdlog[2].cmd[1] = "blockdev" /\ cmdlog[2].rc # 0
    /\ cmdlog[3].cmd[1] = "udevadm"
    /\ cmdlog[4].cmd[1] = "blkid"
    /\ cmdlog[5].cmd[1] = "lsblk"
    /\ Logged("rescanning devices failed")

-----------------------------------------------------------------------------
(* Properties of wipe_volume in mode pvremove (checked under SpecWipe).    *)

\* the commands of mode pvremove, by name and in order
PvremoveOrder == <<"pvremove", "pvscan", "vgscan">>

\* C18: wipe_volume in mode pvremove runs pvremove --force --force, then
\* pvscan, then vgscan, each at most once and in this order; exit codes 0 and
\* 5 of the removal do not end the call (nor do they for the two scans), and
\* any other exit code of any of the commands raises ProcessExecutionError
\* to the caller with no later command run; the call returns only after all
\* three have run.
C18_PvremoveOrder ==
    (call = "wipe_volume" /\ mode = "pvremove") =>
        /\ Len(cmdlog) <= 3
        /\ \A k \in 1..Len(cmdlog) : cmdlog[k].cmd[1] = PvremoveOrder[k]
        /\ Len(cmdlog) >= 1 =>
              cmdlog[1].cmd = <<"pvremove", "--force", "--force", "--yes", "path">>
        /\ \A k \in 1..(Len(cmdlog) - 1) : cmdlog[k].rc \in {0, 5}
        /\ (Len(cmdlog) >= 1 /\ cmdlog[Len(cmdlog)].rc \notin {0, 5}) <=> pc = "raised"
        /\ pc = "raised" => err = "ProcessExecutionError"
        /\ pc = "done" => Len(cmdlog) = 3

\* pvremove exited with 5 and the call went on; pvscan then failed and
\* vgscan was never run
C18_Witness ==
    /\ call = "wipe_volume"
    /\ mode = "pvremove"
    /\ pc = "raised"
    /\ Len(cmdlog) = 2
    /\ cmdlog[1].rc = 5
    /\ cmdlog[2].rc = 1

-----------------------------------------------------------------------------
(* SpecEngines: a caller invokes any of the wipe engines                   *)
(* (zero_file_at_offsets, quick_zero, wipe_file, wipe_volume).             *)

InitEngines == InitZero \/ InitWipe

NextEngines == NextZero \/ NextWipe

SpecEngines == InitEngines /\ [][NextEngines]_vars

-----------------------------------------------------------------------------
(* Properties of both engines (checked under SpecEngines).                 *)

\* every block the reader has returned holds at most buflen bytes
AtMostBuflen == \A k \in 1..Len(reads) : Len(reads[k]) <= buflen

\* C19: neither wipe engine grows or truncates its target.  For every
\* offsets sequence, buflen, count and strict, and for every reader of
\* wipe_file that returns at most buflen bytes per call: the size measured at
\* open is the length of the target, every byte written lies in [0, size) (a
\* write at position size writes no byte), and the length of the target is at
\* every moment of the call, and after it has returned or raised, the length
\* it had before.
C19_NeverGrows ==
    AtMostBuflen =>
        /\ Len(file) = Len(file0)
        /\ (opened /\ pc # "raised") => size = Len(file0)
        /\ \A j \in 1..Len(writes) :
              /\ writes[j].pos >= 0
              /\ writes[j].pos + writes[j].n <= size
              /\ writes[j].n > 0 => writes[j].pos < size

\* zero_file_at_offsets has returned after a write that was cut at the end of
\* the file and a write of no byte at position size
C19_Witness ==
    /\ call = "zero_file_at_offsets"
    /\ pc = "done"
    /\ Len(file) = Len(file0)
    /\ \E j \in 1..Len(writes) : writes[j].n = 0 /\ writes[j].pos = size
    /\ \E j \in 1..Len(writes) : writes[j].n > 0 /\ writes[j].n < buflen
    /\ \E k \in 1..Len(offsets) : offsets[k] < 0

-----------------------------------------------------------------------------
(* SpecWipeFair: SpecWipe where the call keeps running: wipe_file and      *)
(* wipe_volume are sequential code, a statement that can run does run.     *)

SpecWipeFair == InitWipe /\ [][NextWipe]_vars /\ WF_vars(NextWipe)

-----------------------------------------------------------------------------
(* Properties of the write loop of wipe_file (checked under SpecWipeFair). *)

\* max(1, ceil(size / buflen)) + 1
ReadBound == Max(1, (size + buflen - 1) \div buflen) + 1

\* wipe_file is running: before its open or in its loop
WipeFileRuns == pc \in {"wf_open", "wf_loop"}

\* C20: for every size, every buflen >= 1 and every reader (full, short,
\* empty or over-long blocks) the loop of wipe_file ends, by returning or by
\* raising, after at most max(1, ceil(size / buflen)) + 1 calls of the reader,
\* and every turn of the loop that does not end it moves the write position
\* forward.
C20_WipeFileTerminates ==
    /\ [](pc \in {"wf_loop", "done", "raised"} /\ opened /\ buflen >= 1
             => Len(reads) <= ReadBound)
    /\ [][(pc = "wf_loop" /\ pc' = "wf_loop") => fpos' > fpos]_vars
    /\ WipeFileRuns ~> (pc \in {"done", "raised"})

\* wipe_file has returned after three reads, one of them over-long
C20_Witness ==
    /\ call = "wipe_file"
    /\ pc = "done"
    /\ Len(reads) = 3
    /\ \E k \in 1..Len(reads) : Len(reads[k]) > buflen

====
